---- MODULE Spec2Model ----
(***************************************************************************)
(* Model of the listing browser: the GET endpoint (two variants) that      *)
(* reads a document collection through a module-level cached MongoClient,  *)
(* and the PropertyListings view (two variants) that fetches the endpoint, *)
(* maps the documents to view-model records and filters them.              *)
(*                                                                         *)
(* variant "A": endpoint src/unnamed/part_000 (reshapes documents into     *)
(*              fields/taxonomies) + view src/components/property-listings *)
(* variant "B": endpoint src/unnamed/part_001 (returns raw documents)      *)
(*              + view src/unnamed/part_002 (flat fields, boxed numbers)   *)
(*                                                                         *)
(* JavaScript values are tagged records [t |-> type, v |-> payload];       *)
(* strings are sequences of one-character strings so that toLowerCase,     *)
(* includes, parseInt and toHexString are computed, not assumed.           *)
(*                                                                         *)
(* Specifications: Spec (endpoint and view, all collections), SpecMap (the *)
(* mapping of one document), SpecFair (Spec on the small collections, with *)
(* the scheduling of the event loop), SpecUnmount (the view may unmount),  *)
(* SpecServer (one server process serving concurrent requests).            *)
(***************************************************************************)
EXTENDS Integers, Sequences, FiniteSets, TLC

(***************************************************************************)
(* Bounds of the model                                                     *)
(***************************************************************************)
\* longest small collection enumerated in Init
MaxDocs == 2
\* a large collection holds LIMIT + ExtraDocs documents
ExtraDocs == 1
\* number of times the view may call fetchProperties (mount + retries)
MaxFetches == 2
\* number of GET requests that reach one server process
MaxRequests == 2

(***************************************************************************)
(* Program constants                                                       *)
(***************************************************************************)
\* collection.find({}).limit(500)
LIMIT == 500
\* useState<[number, number]>([0, 100000000])
PriceRangeMax == 100000000

(***************************************************************************)
(* JavaScript values                                                       *)
(***************************************************************************)
Undef == [t |-> "undefined"]
NaN == [t |-> "nan"]
Str(s) == [t |-> "string", v |-> s]
Num(n) == [t |-> "number", v |-> n]
Arr(a) == [t |-> "array", v |-> a]
Oid(n) == [t |-> "objectid", v |-> n]
\* an object: v is a function from property names to values
Obj(f) == [t |-> "object", v |-> f]
\* extended-JSON boxed numbers {$numberInt: "..."} and {$numberDouble: "..."}
BoxInt(s) == Obj("$numberInt" :> Str(s))
BoxDouble(s) == Obj("$numberDouble" :> Str(s))

Null == [t |-> "null"]

\* JS truthiness: undefined, null, "", 0 and NaN are falsy; arrays and objects truthy
Truthy(x) ==
  CASE x.t \in {"undefined", "null"} -> FALSE
    [] x.t = "nan" -> FALSE
    [] x.t = "string" -> Len(x.v) > 0
    [] x.t = "number" -> x.v # 0
    [] OTHER -> TRUE

\* a || b
OrElse(a, b) == IF Truthy(a) THEN a ELSE b

\* x?.key: undefined when x is undefined or has no such property
Get(x, key) == IF x.t = "object" /\ key \in DOMAIN x.v THEN x.v[key] ELSE Undef

\* x?.[0] on an array (undefined when x is absent or the array is empty)
First(x) == IF x.t = "array" /\ Len(x.v) > 0 THEN x.v[1] ELSE Undef

\* typeof x === "number" (NaN is a number too)
IsNumber(x) == x.t \in {"number", "nan"}

(***************************************************************************)
(* Strings                                                                 *)
(***************************************************************************)
UpperChars == <<"A","B","C","D","E","F","G","H","I","J","K","L","M",
                "N","O","P","Q","R","S","T","U","V","W","X","Y","Z">>
LowerChars == <<"a","b","c","d","e","f","g","h","i","j","k","l","m",
                "n","o","p","q","r","s","t","u","v","w","x","y","z">>
DigitChars == <<"0","1","2","3","4","5","6","7","8","9">>
HexChars == <<"0","1","2","3","4","5","6","7","8","9","a","b","c","d","e","f">>

LowerChar(c) ==
  IF \E i \in 1..26 : UpperChars[i] = c
  THEN LowerChars[CHOOSE i \in 1..26 : UpperChars[i] = c]
  ELSE c

\* String.prototype.toLowerCase
ToLowerCase(s) == [i \in 1..Len(s) |-> LowerChar(s[i])]

\* String.prototype.includes
Includes(hay, needle) ==
  \E i \in 0..(Len(hay) - Len(needle)) : SubSeq(hay, i + 1, i + Len(needle)) = needle

\* Array.prototype.includes
ArrayIncludes(a, x) == \E i \in 1..Len(a) : a[i] = x

IsDigit(c) == \E i \in 1..10 : DigitChars[i] = c
DigitVal(c) == (CHOOSE i \in 1..10 : DigitChars[i] = c) - 1

RECURSIVE ParsePrefix(_, _, _)
ParsePrefix(s, i, acc) ==
  IF i > Len(s) \/ ~IsDigit(s[i]) THEN acc
  ELSE ParsePrefix(s, i + 1, acc * 10 + DigitVal(s[i]))

\* Number.parseInt / parseFloat on the unsigned integer strings of the model:
\* the longest digit prefix, NaN when there is none
ParseNumber(x) ==
  CASE x.t = "number" -> x
    [] x.t = "string" ->
         IF Len(x.v) = 0 \/ ~IsDigit(x.v[1]) THEN NaN ELSE Num(ParsePrefix(x.v, 1, 0))
    [] OTHER -> NaN

\* ObjectId.toHexString: the identifier written in base 16
RECURSIVE ToHexString(_)
ToHexString(n) ==
  IF n < 16 THEN <<HexChars[n + 1]>>
  ELSE ToHexString(n \div 16) \o <<HexChars[(n % 16) + 1]>>

\* JSON.stringify followed by JSON.parse, as NextResponse.json and
\* response.json do: an ObjectId becomes its hex string (toJSON), a property
\* whose value is undefined is dropped, NaN becomes null (read as absent here)
RECURSIVE JsonRoundTrip(_)
JsonRoundTrip(x) ==
  CASE x.t = "objectid" -> Str(ToHexString(x.v))
    [] x.t = "array" -> Arr([i \in 1..Len(x.v) |-> JsonRoundTrip(x.v[i])])
    [] x.t = "object" ->
         LET kept == {k \in DOMAIN x.v : x.v[k].t # "undefined"}
         IN Obj([k \in kept |-> JsonRoundTrip(x.v[k])])
    [] x.t = "nan" -> Undef
    [] OTHER -> x

(***************************************************************************)
(* String literals of the program                                          *)
(***************************************************************************)
Unknown == Str(<<"U","n","k","n","o","w","n">>)
NotAvailable == Str(<<"N","/","A">>)
EmptyString == Str(<<>>)
Hash == Str(<<"#">>)
All == <<"a","l","l">>
Residential == <<"R","e","s","i","d","e","n","t","i","a","l">>
Commercial == <<"C","o","m","m","e","r","c","i","a","l">>
Premium == <<"P","r","e","m","i","u","m">>
Verified == <<"V","e","r","i","f","i","e","d">>
NewLaunch == <<"N","e","w"," ","L","a","u","n","c","h">>
ReadyToMove == <<"R","e","a","d","y"," ","t","o"," ","M","o","v","e">>
UnderConstruction == <<"U","n","d","e","r"," ","C","o","n","s","t","r","u","c","t","i","o","n">>

\* <option value=...> of the category, tag and status selectors
CategoryOptions == {All, Residential, Commercial}
TagOptions == {All, Premium, Verified, NewLaunch}
StatusOptions == {All, ReadyToMove, UnderConstruction, NewLaunch}

(***************************************************************************)
(* Listing documents of the database                                       *)
(***************************************************************************)
\* fields of a "listings" document that the view of variant A reads
OptionalA == {"title", "price_sqft", "latitude", "longitude", "address",
              "project_highlights", "rera_id", "starting_bsp", "listing_url",
              "photo_url", "amenities", "at_biz_dir-category",
              "at_biz_dir-location", "at_biz_dir-tags"}
\* fields the endpoint of variant A copies and the view never reads
PassThroughA == {"author_id", "meta_description", "project_description",
                 "rera_url", "about_project", "nearest_school", "nearest_bank",
                 "nearest_hospital", "project_detail", "scraped_at"}
\* fields of an "apartment" document that the view of variant B reads
OptionalB == {"Apartment Name", "Location", "Minimum Price", "Maximum Price",
              "Per Sqft Cost", "Number of Units", "Total Area", "Project Status",
              "Photo URL", "Listing URL", "Amenities", "Latitude", "Longitude"}

OptionalKeys(v) == IF v = "A" THEN OptionalA ELSE OptionalB
DocKeys(v) == IF v = "A" THEN OptionalA \cup PassThroughA ELSE OptionalB

\* a residential listing with every field set
FullA ==
  [k \in OptionalA \cup PassThroughA |->
    CASE k = "title" -> Str(<<"A","b">>)
      [] k = "address" -> Str(<<"C","d">>)
      [] k = "at_biz_dir-location" -> Arr(<<Str(<<"B","a">>), Str(<<"z">>)>>)
      [] k = "at_biz_dir-category" -> Arr(<<Str(Residential)>>)
      [] k = "at_biz_dir-tags" -> Arr(<<Str(Premium), Str(Verified)>>)
      [] k = "amenities" -> Arr(<<Str(<<"g","y","m">>)>>)
      [] k = "latitude" -> Str(<<"2","8">>)
      [] k = "longitude" -> Str(<<"7","7">>)
      [] k = "starting_bsp" -> Str(<<"5","0">>)
      [] k = "price_sqft" -> Str(<<"7">>)
      [] OTHER -> Str(<<"x">>)]

\* a commercial listing without amenities, coordinates and pass-through fields
PartialA ==
  [k \in {"title", "address", "at_biz_dir-location", "at_biz_dir-category",
          "at_biz_dir-tags", "starting_bsp"} |->
    CASE k = "title" -> Str(<<"b">>)
      [] k = "address" -> Str(<<"a","B">>)
      [] k = "at_biz_dir-location" -> Arr(<<Str(<<"c">>)>>)
      [] k = "at_biz_dir-category" -> Arr(<<Str(Commercial)>>)
      [] k = "at_biz_dir-tags" -> Arr(<<Str(NewLaunch)>>)
      [] OTHER -> Str(<<"9">>)]

\* an apartment with every field set, numbers in plain and boxed encodings
FullB ==
  [k \in OptionalB |->
    CASE k = "Apartment Name" -> Str(<<"A","b">>)
      [] k = "Location" -> Str(<<"B","a">>)
      [] k = "Minimum Price" -> Num(5)
      [] k = "Maximum Price" -> BoxInt(<<"9">>)
      [] k = "Per Sqft Cost" -> BoxDouble(<<"7">>)
      [] k = "Number of Units" -> BoxInt(<<"3">>)
      [] k = "Project Status" -> Str(ReadyToMove)
      [] k = "Amenities" -> Arr(<<Str(<<"g","y","m">>)>>)
      [] k = "Latitude" -> Num(28)
      [] k = "Longitude" -> BoxDouble(<<"7","7">>)
      [] OTHER -> Str(<<"x">>)]

\* an apartment priced above the default price range, without amenities
PartialB ==
  [k \in {"Apartment Name", "Location", "Minimum Price", "Project Status"} |->
    CASE k = "Apartment Name" -> Str(<<"b">>)
      [] k = "Location" -> Str(<<"a","B">>)
      [] k = "Minimum Price" -> BoxInt(<<"2","0","0","0","0","0","0","0","0">>)
      [] OTHER -> Str(NewLaunch)]

\* the document kinds a collection is built from: "full", "partial" and "bare"
\* (only _id); a "strid" document is a full one whose _id is a string, which
\* the database allows
Kinds == {"full", "partial", "bare"}

Template(v, kind) ==
  CASE kind \in {"full", "strid"} -> IF v = "A" THEN FullA ELSE FullB
    [] kind = "partial" -> IF v = "A" THEN PartialA ELSE PartialB
    [] OTHER -> [k \in {} |-> Undef]

\* the template with only the fields of `present`
Mask(tpl, present) == [k \in DOMAIN tpl \cap present |-> tpl[k]]

\* the document with the fields of the template and the given _id
MakeDoc(tpl, idValue) ==
  Obj([k \in DOMAIN tpl \cup {"_id"} |-> IF k = "_id" THEN idValue ELSE tpl[k]])

KindDoc(v, kind, n) ==
  MakeDoc(Template(v, kind), IF kind = "strid" THEN Str(<<"k">> \o ToHexString(n)) ELSE Oid(n))

\* a collection holding the kinds of `ks` in order
KindCollection(v, ks) == [i \in 1..Len(ks) |-> KindDoc(v, ks[i], i)]

RECURSIVE SeqsUpTo(_, _)
SeqsUpTo(S, n) ==
  IF n = 0 THEN {<<>>}
  ELSE LET shorter == SeqsUpTo(S, n - 1)
       IN shorter \cup {Append(q, x) : q \in {r \in shorter : Len(r) = n - 1}, x \in S}

\* a collection larger than the query limit: full, partial and bare
\* documents in turn
LargeKinds == [i \in 1..(LIMIT + ExtraDocs) |-> <<"full", "partial", "bare">>[(i % 3) + 1]]

Collections(v) ==
  {KindCollection(v, ks) : ks \in SeqsUpTo(Kinds, MaxDocs) \cup {<<"bare", "strid">>, LargeKinds}}

(***************************************************************************)
(* State                                                                   *)
(***************************************************************************)
VARIABLES
  variant,            \* "A" or "B": which endpoint/view pair is deployed
  mongodbUri,         \* process.env.MONGODB_URI: Undef or a string
  collection,         \* the documents of the queried collection, in order
  cachedClient,       \* module-level cachedClient: 0 is null, else a handle
  clientsCreated,     \* number of MongoClient handles constructed so far
  connectCalls,       \* number of client.connect() calls so far
  closeCalls,         \* number of client.close() calls so far
  requests,           \* GET invocations: [pc, client, connects, failed, responses,
                      \* escaped]; connects: its client.connect() calls; failed: the
                      \* try block threw; responses: what the handler returned,
                      \* until the caller reads it; escaped: an exception left the
                      \* handler
  fetches,            \* fetchProperties calls of the view: [pc, status]
  mounted,            \* the view is mounted: its mount effects have run
  unmounted,          \* the view was mounted and has been unmounted since
  lateUpdates,        \* the state setters called on the view after its unmount
  properties, filteredProperties, loading, error,
  searchTerm, categoryFilter, tagFilter, statusFilter, priceRange, showFilters,
  effectPending       \* a dependency of the filter effect changed in the last render

config == <<variant, mongodbUri, collection>>
server == <<cachedClient, clientsCreated, connectCalls, closeCalls, requests>>
controls == <<searchTerm, categoryFilter, tagFilter, statusFilter, priceRange, showFilters>>
view == <<fetches, mounted, unmounted, lateUpdates, properties, filteredProperties, loading, error,
         effectPending>>
vars == <<config, server, controls, view>>

(***************************************************************************)
(* Fetch endpoint: getMongoClient and GET                                  *)
(***************************************************************************)
ConnectionString == <<"m","o","n","g","o","d","b",":","/","/","h","/","?","w","=","1">>
SslSuffix == <<"&","s","s","l","=","f","a","l","s","e">>
UndefinedText == <<"u","n","d","e","f","i","n","e","d">>
SchemeMongodb == <<"m","o","n","g","o","d","b",":","/","/">>
SchemeSrv == <<"m","o","n","g","o","d","b","+","s","r","v",":","/","/">>

\* messages, as sequences of words
MsgNotConfigured == <<"MONGODB_URI", "environment", "variable", "not", "configured">>
MsgInvalidScheme == <<"Invalid", "scheme,", "expected", "connection", "string", "to",
                      "start", "with", "mongodb://", "or", "mongodb+srv://">>
MsgConnectFailed == <<"connect", "ECONNREFUSED">>
MsgQueryFailed == <<"connection", "closed">>
MsgNotAFunction == <<"property._id.toHexString", "is", "not", "a", "function">>
MsgFailedToFetchProperties == <<"Failed", "to", "fetch", "properties">>

Thrown(message) == [threw |-> TRUE, isError |-> TRUE, message |-> message]
Returned(value) == [threw |-> FALSE, value |-> value]

\* x + "&ssl=false": string concatenation, undefined is written "undefined"
PlusString(x, suffix) ==
  IF x.t = "undefined" THEN Str(UndefinedText \o suffix) ELSE Str(x.v \o suffix)

\* const uri = ... (line 4 of each endpoint)
Uri(v, env) == IF v = "A" THEN PlusString(env, SslSuffix) ELSE env

StartsWith(s, prefix) == Len(s) >= Len(prefix) /\ SubSeq(s, 1, Len(prefix)) = prefix

\* new MongoClient(uri) parses the connection string and throws on a bad scheme
\* (mongodb driver 4 and later)
ValidScheme(s) == StartsWith(s, SchemeMongodb) \/ StartsWith(s, SchemeSrv)

\* (mutant) getMongoClient without the test of the cache
GetMongoClientNoCacheTest(v, env, cached, created) ==
  LET uri == Uri(v, env) IN
  IF ~Truthy(uri)
  THEN [result |-> Thrown(MsgNotConfigured), cached |-> cached, created |-> created]
  ELSE IF ~ValidScheme(uri.v)
  THEN [result |-> Thrown(MsgInvalidScheme), cached |-> cached, created |-> created]
  ELSE [result |-> Returned(created + 1), cached |-> created + 1, created |-> created + 1]

\* getMongoClient(): what it returns or throws, and the cache it leaves
GetMongoClient(v, env, cached, created) ==
  LET uri == Uri(v, env) IN
  IF cached # 0
  THEN [result |-> Returned(cached), cached |-> cached, created |-> created]
  ELSE IF ~Truthy(uri)
  THEN [result |-> Thrown(MsgNotConfigured), cached |-> cached, created |-> created]
  ELSE IF ~ValidScheme(uri.v)
  THEN [result |-> Thrown(MsgInvalidScheme), cached |-> cached, created |-> created]
  ELSE [result |-> Returned(created + 1), cached |-> created + 1, created |-> created + 1]

Min(a, b) == IF a <= b THEN a ELSE b

\* (mutant) the query without its limit
FindNoLimit(coll, n) == coll

\* collection.find({}).limit(n).toArray()
FindLimit(coll, n) == SubSeq(coll, 1, Min(Len(coll), n))

\* the object built for one document by the endpoint of variant A
FormatProperty(property) ==
  Obj([k \in {"_id", "title", "author_id", "meta_description", "project_description",
             "fields", "taxonomies", "scraped_at"} |->
    CASE k = "_id" -> Obj("$oid" :> Str(ToHexString(Get(property, "_id").v)))
      [] k = "fields" ->
           Obj([f \in {"price_sqft", "latitude", "longitude", "address",
                       "project_highlights", "rera_url", "rera_id", "about_project",
                       "nearest_school", "nearest_bank", "nearest_hospital",
                       "starting_bsp", "project_detail", "listing_url", "photo_url",
                       "amenities"} |->
                 IF f = "amenities" THEN OrElse(Get(property, f), Arr(<<>>))
                 ELSE Get(property, f)])
      [] k = "taxonomies" ->
           Obj([f \in {"at_biz_dir-category", "at_biz_dir-location", "at_biz_dir-tags"} |->
                 OrElse(Get(property, f), Arr(<<>>))])
      [] OTHER -> Get(property, k)])

\* properties.map(...) of variant A: property._id.toHexString() throws a
\* TypeError when _id is no ObjectId
FormatProperties(docs) ==
  IF \E i \in 1..Len(docs) : Get(docs[i], "_id").t # "objectid"
  THEN Thrown(MsgNotAFunction)
  ELSE Returned([i \in 1..Len(docs) |-> FormatProperty(docs[i])])

\* what the endpoint puts in `documents` for the documents the query returned
Documents(v, docs) == IF v = "A" THEN FormatProperties(docs) ELSE Returned(docs)

\* NextResponse.json(body, {status})
ResponseJson(body, status) == [status |-> status, body |-> JsonRoundTrip(body)]

\* error instanceof Error ? error.message : "Failed to fetch properties"
ErrorMessage(e) == IF e.isError THEN e.message ELSE MsgFailedToFetchProperties

\* (mutant) a catch block that handles driver errors only and rethrows the rest
TryCatchRethrows(outcome) ==
  IF outcome.threw /\ outcome.message \notin {MsgConnectFailed, MsgQueryFailed}
  THEN [responses |-> <<>>, escaped |-> TRUE]
  ELSE IF outcome.threw
  THEN [responses |-> <<ResponseJson(Obj("error" :> Str(ErrorMessage(outcome))), 500)>>,
        escaped |-> FALSE]
  ELSE [responses |-> <<ResponseJson(Obj("documents" :> Arr(outcome.value)), 200)>>,
        escaped |-> FALSE]

\* the try/catch of GET around an outcome of its body: the response list it
\* produces and whether an exception leaves the handler
TryCatch(outcome) ==
  IF outcome.threw
  THEN [responses |-> <<ResponseJson(Obj("error" :> Str(ErrorMessage(outcome))), 500)>>,
        escaped |-> FALSE]
  ELSE [responses |-> <<ResponseJson(Obj("documents" :> Arr(outcome.value)), 200)>>,
        escaped |-> FALSE]

NewRequest ==
  [pc |-> "start", client |-> 0, connects |-> 0, failed |-> FALSE, responses |-> <<>>,
   escaped |-> FALSE]

\* the handler of request r ends with the outcome of its try block
Finish(r, outcome) ==
  requests' = [requests EXCEPT ![r] =
                 [pc |-> "done", client |-> @.client, connects |-> @.connects,
                  failed |-> outcome.threw,
                  responses |-> TryCatch(outcome).responses,
                  escaped |-> TryCatch(outcome).escaped]]

\* const client = await getMongoClient()
ServerGetMongoClient(r) ==
  /\ requests[r].pc = "start"
  /\ LET got == GetMongoClient(variant, mongodbUri, cachedClient, clientsCreated) IN
       /\ cachedClient' = got.cached
       /\ clientsCreated' = got.created
       /\ IF got.result.threw
          THEN Finish(r, got.result)
          ELSE requests' = [requests EXCEPT ![r].pc = "client", ![r].client = got.result.value]
  /\ UNCHANGED <<config, connectCalls, closeCalls, controls, view>>

\* (mutant) connect guarded: skipped once connect was called on the handle
ServerConnectOnce(r) ==
  /\ requests[r].pc = "client"
  /\ IF connectCalls = 0
     THEN /\ connectCalls' = connectCalls + 1
          /\ requests' = [requests EXCEPT ![r].pc = "connecting", ![r].connects = @ + 1]
     ELSE /\ connectCalls' = connectCalls
          /\ requests' = [requests EXCEPT ![r].pc = "connected"]
  /\ UNCHANGED <<config, cachedClient, clientsCreated, closeCalls, controls, view>>

\* client.connect() is called, whether or not the handle was cached
ServerConnect(r) ==
  /\ requests[r].pc = "client"
  /\ connectCalls' = connectCalls + 1
  /\ requests' = [requests EXCEPT ![r].pc = "connecting", ![r].connects = @ + 1]
  /\ UNCHANGED <<config, cachedClient, clientsCreated, closeCalls, controls, view>>

\* (mutant) a rejected connect that drops the cached handle
ServerConnectSettledInvalidates(r) ==
  /\ requests[r].pc = "connecting"
  /\ \/ /\ requests' = [requests EXCEPT ![r].pc = "connected"]
        /\ cachedClient' = cachedClient
     \/ /\ Finish(r, Thrown(MsgConnectFailed))
        /\ cachedClient' = 0
  /\ UNCHANGED <<config, clientsCreated, connectCalls, closeCalls, controls, view>>

\* await client.connect() settles: resolved, or rejected by the driver
ServerConnectSettled(r) ==
  /\ requests[r].pc = "connecting"
  /\ \/ requests' = [requests EXCEPT ![r].pc = "connected"]
     \/ Finish(r, Thrown(MsgConnectFailed))
  /\ UNCHANGED <<config, cachedClient, clientsCreated, connectCalls, closeCalls, controls, view>>

\* the query, the mapping and the response (lines 27-66 / 27-32)
ServerQuery(r) ==
  /\ requests[r].pc = "connected"
  /\ \/ Finish(r, Documents(variant, FindLimit(collection, LIMIT)))
     \/ Finish(r, Thrown(MsgQueryFailed))
  /\ UNCHANGED <<config, cachedClient, clientsCreated, connectCalls, closeCalls, controls, view>>

\* a GET request of any client of the endpoint reaches the server process,
\* while earlier requests may still be in their handlers
Arrive ==
  /\ Len(requests) < MaxRequests
  /\ requests' = Append(requests, NewRequest)
  /\ UNCHANGED <<config, cachedClient, clientsCreated, connectCalls, closeCalls, controls, view>>

(***************************************************************************)
(* Listing view: fetchProperties                                           *)
(***************************************************************************)
MsgFailedToFetchData == <<"Failed", "to", "fetch", "data:">>
MsgNoDocuments == <<"No", "documents", "found", "in", "response">>
MsgFailedToFetch == <<"Failed", "to", "fetch">>
MsgNotIterable == <<"data.documents.map", "is", "not", "a", "function">>

\* response.ok
Ok(response) == response.status >= 200 /\ response.status <= 299

\* response.text() of a body {"error": message}, as words
BodyText(body) ==
  IF Truthy(Get(body, "error"))
  THEN <<"{", "error", ":">> \o Get(body, "error").v \o <<"}">>
  ELSE <<"{", "documents", "}">>

StatusText(status) == IF status = 500 THEN <<"500">> ELSE <<"status">>

\* the view-model record of one document, variant A (lines 63-79)
ToPropertyA(doc) ==
  LET fields == Get(doc, "fields")
      taxonomies == Get(doc, "taxonomies")
  IN [k \in {"_id", "title", "location", "price", "priceSqft", "photoUrl", "listingUrl",
             "amenities", "latitude", "longitude", "address", "category", "tags",
             "projectHighlights", "reraId"} |->
       CASE k = "_id" -> OrElse(Get(Get(doc, "_id"), "$oid"), Get(doc, "_id"))
         [] k = "title" -> OrElse(Get(doc, "title"), Unknown)
         [] k = "location" -> OrElse(First(Get(taxonomies, "at_biz_dir-location")), Unknown)
         [] k = "price" -> OrElse(Get(fields, "starting_bsp"), NotAvailable)
         [] k = "priceSqft" -> OrElse(Get(fields, "price_sqft"), NotAvailable)
         [] k = "photoUrl" -> OrElse(Get(fields, "photo_url"), EmptyString)
         [] k = "listingUrl" -> OrElse(Get(fields, "listing_url"), Hash)
         [] k = "amenities" -> OrElse(Get(fields, "amenities"), Arr(<<>>))
         [] k = "latitude" ->
              IF Truthy(Get(fields, "latitude"))
              THEN ParseNumber(Get(fields, "latitude")) ELSE Num(0)
         [] k = "longitude" ->
              IF Truthy(Get(fields, "longitude"))
              THEN ParseNumber(Get(fields, "longitude")) ELSE Num(0)
         [] k = "address" -> OrElse(Get(fields, "address"), NotAvailable)
         [] k = "category" -> OrElse(First(Get(taxonomies, "at_biz_dir-category")), Unknown)
         [] k = "tags" -> OrElse(Get(taxonomies, "at_biz_dir-tags"), Arr(<<>>))
         [] k = "projectHighlights" -> OrElse(Get(fields, "project_highlights"), NotAvailable)
         [] OTHER -> OrElse(Get(fields, "rera_id"), NotAvailable)]

\* (mutant) the unboxing without its final default
UnboxIntNoDefault(x) ==
  IF Truthy(Get(x, "$numberInt")) THEN ParseNumber(Get(x, "$numberInt")) ELSE x

\* x?.$numberInt ? Number.parseInt(x.$numberInt) : typeof x === "number" ? x : 0
UnboxInt(x) ==
  IF Truthy(Get(x, "$numberInt")) THEN ParseNumber(Get(x, "$numberInt"))
  ELSE IF IsNumber(x) THEN x ELSE Num(0)

\* x?.$numberDouble ? Number.parseFloat(x.$numberDouble) : typeof x === "number" ? x : 0
UnboxDouble(x) ==
  IF Truthy(Get(x, "$numberDouble")) THEN ParseNumber(Get(x, "$numberDouble"))
  ELSE IF IsNumber(x) THEN x ELSE Num(0)

\* (mutant) variant B without the `|| []` of Amenities
ToPropertyBNoAmenitiesDefault(doc) ==
  [k \in OptionalB \cup {"_id"} |->
    CASE k = "_id" -> OrElse(Get(Get(doc, "_id"), "$oid"), Get(doc, "_id"))
      [] k \in {"Apartment Name", "Location", "Project Status"} -> OrElse(Get(doc, k), Unknown)
      [] k \in {"Minimum Price", "Maximum Price", "Number of Units"} -> UnboxInt(Get(doc, k))
      [] k \in {"Per Sqft Cost", "Latitude", "Longitude"} -> UnboxDouble(Get(doc, k))
      [] k = "Total Area" -> OrElse(Get(doc, k), NotAvailable)
      [] k = "Photo URL" -> OrElse(Get(doc, k), EmptyString)
      [] k = "Listing URL" -> OrElse(Get(doc, k), Hash)
      [] OTHER -> Get(doc, "Amenities")]

\* the view-model record of one document, variant B (lines 62-101)
ToPropertyB(doc) ==
  [k \in OptionalB \cup {"_id"} |->
    CASE k = "_id" -> OrElse(Get(Get(doc, "_id"), "$oid"), Get(doc, "_id"))
      [] k \in {"Apartment Name", "Location", "Project Status"} -> OrElse(Get(doc, k), Unknown)
      [] k \in {"Minimum Price", "Maximum Price", "Number of Units"} -> UnboxInt(Get(doc, k))
      [] k \in {"Per Sqft Cost", "Latitude", "Longitude"} -> UnboxDouble(Get(doc, k))
      [] k = "Total Area" -> OrElse(Get(doc, k), NotAvailable)
      [] k = "Photo URL" -> OrElse(Get(doc, k), EmptyString)
      [] k = "Listing URL" -> OrElse(Get(doc, k), Hash)
      [] OTHER -> OrElse(Get(doc, "Amenities"), Arr(<<>>))]

ToProperty(v, doc) == IF v = "A" THEN ToPropertyA(doc) ELSE ToPropertyB(doc)

\* data.documents.map(...)
ProcessDocuments(v, documents) ==
  IF documents.t # "array" THEN Thrown(MsgNotIterable)
  ELSE Returned([i \in 1..Len(documents.v) |-> ToProperty(v, documents.v[i])])

\* (mutant) an empty documents array taken for a missing one
ProcessResponseEmptyIsMissing(v, response) ==
  IF ~Ok(response)
  THEN Thrown(MsgFailedToFetchData \o StatusText(response.status) \o <<"-">>
              \o BodyText(response.body))
  ELSE IF ~Truthy(Get(response.body, "documents"))
          \/ Len(Get(response.body, "documents").v) = 0
  THEN Thrown(MsgNoDocuments)
  ELSE ProcessDocuments(v, Get(response.body, "documents"))

\* the body of the try block of fetchProperties once fetch has resolved
ProcessResponse(v, response) ==
  IF ~Ok(response)
  THEN Thrown(MsgFailedToFetchData \o StatusText(response.status) \o <<"-">>
              \o BodyText(response.body))
  ELSE IF ~Truthy(Get(response.body, "documents"))
  THEN Thrown(MsgNoDocuments)
  ELSE ProcessDocuments(v, Get(response.body, "documents"))

(***************************************************************************)
(* Listing view: filterProperties and render                               *)
(***************************************************************************)
\* (mutant) the search of variant A without the address
MatchesANoAddress(property, term, category, tag) ==
  LET matchesSearch ==
        \/ Includes(ToLowerCase(property["title"].v), ToLowerCase(term))
        \/ Includes(ToLowerCase(property["location"].v), ToLowerCase(term))
      matchesCategory == category = All \/ property["category"] = Str(category)
      matchesTag == tag = All \/ ArrayIncludes(property["tags"].v, Str(tag))
  IN matchesSearch /\ matchesCategory /\ matchesTag

\* the predicate of properties.filter, variant A (lines 92-103)
MatchesA(property, term, category, tag) ==
  LET matchesSearch ==
        \/ Includes(ToLowerCase(property["title"].v), ToLowerCase(term))
        \/ Includes(ToLowerCase(property["location"].v), ToLowerCase(term))
        \/ Includes(ToLowerCase(property["address"].v), ToLowerCase(term))
      matchesCategory == category = All \/ property["category"] = Str(category)
      matchesTag == tag = All \/ ArrayIncludes(property["tags"].v, Str(tag))
  IN matchesSearch /\ matchesCategory /\ matchesTag

\* the predicate of properties.filter, variant B (lines 114-125)
MatchesB(property, term, status, range) ==
  LET matchesSearch ==
        \/ Includes(ToLowerCase(property["Apartment Name"].v), ToLowerCase(term))
        \/ Includes(ToLowerCase(property["Location"].v), ToLowerCase(term))
      matchesStatus == status = All \/ property["Project Status"] = Str(status)
      price == property["Minimum Price"]
      matchesPrice == price.t = "number" /\ price.v >= range[1] /\ price.v <= range[2]
  IN matchesSearch /\ matchesStatus /\ matchesPrice

\* Array.prototype.filter: the elements whose flag is set, in order
RECURSIVE SelectFrom(_, _, _, _)
SelectFrom(seq, keep, lo, hi) ==
  IF lo > hi THEN <<>>
  ELSE IF lo = hi THEN (IF keep[lo] THEN <<seq[lo]>> ELSE <<>>)
  ELSE LET mid == (lo + hi) \div 2
       IN SelectFrom(seq, keep, lo, mid) \o SelectFrom(seq, keep, mid + 1, hi)

RemoveAt(seq, i) == SubSeq(seq, 1, i - 1) \o SubSeq(seq, i + 1, Len(seq))

RECURSIVE SpliceFrom(_, _)
SpliceFrom(tagged, i) ==
  IF i > Len(tagged) THEN tagged
  ELSE IF tagged[i].keep THEN SpliceFrom(tagged, i + 1)
  ELSE SpliceFrom(RemoveAt(tagged, i), i + 1)

\* (mutant) a filter that removes the rejected elements in place while it
\* walks the list forward, and so skips the element after each removed one
FilteredBySplicing(v, props, term, category, tag, status, range) ==
  LET tagged == [i \in 1..Len(props) |->
                  [p |-> props[i],
                   keep |-> IF v = "A" THEN MatchesA(props[i], term, category, tag)
                            ELSE MatchesB(props[i], term, status, range)]]
      left == SpliceFrom(tagged, 1)
  IN [i \in 1..Len(left) |-> left[i].p]

\* the list filterProperties passes to setFilteredProperties
Filtered(v, props, term, category, tag, status, range) ==
  LET keep == [i \in 1..Len(props) |->
                IF v = "A" THEN MatchesA(props[i], term, category, tag)
                ELSE MatchesB(props[i], term, status, range)]
  IN SelectFrom(props, keep, 1, Len(props))

\* what the component renders
Screen(isLoading, err, shown) ==
  IF isLoading THEN "loading"
  ELSE IF Truthy(err) THEN "error"
  ELSE IF Len(shown) = 0 THEN "empty" ELSE "list"

\* filterProperties() with the state of the current render
FilterProperties(props) ==
  Filtered(variant, props, searchTerm, categoryFilter, tagFilter, statusFilter, priceRange)

(***************************************************************************)
(* Listing view: actions                                                   *)
(***************************************************************************)
SearchTerms == {<<>>, <<"A", "B">>, <<"d">>}
PriceInputs == {0, 6}

NewFetch == [pc |-> "pending", status |-> 0]

\* (mutant) fetchProperties without its setError(null)
StartFetchKeepsError ==
  /\ Len(fetches) < MaxFetches
  /\ loading' = TRUE
  /\ error' = error
  /\ fetches' = Append(fetches, NewFetch)
  /\ requests' = Append(requests, NewRequest)

\* fetchProperties() up to its await: setLoading(true), setError(null), fetch()
StartFetch ==
  /\ Len(fetches) < MaxFetches
  /\ loading' = TRUE
  /\ error' = Null
  /\ fetches' = Append(fetches, NewFetch)
  /\ requests' = Append(requests, NewRequest)

\* the two mount effects: fetchProperties() and filterProperties()
Mount ==
  /\ ~mounted /\ ~unmounted
  /\ mounted' = TRUE
  /\ StartFetch
  /\ filteredProperties' = FilterProperties(properties)
  /\ effectPending' = FALSE
  /\ UNCHANGED <<config, cachedClient, clientsCreated, connectCalls, closeCalls, controls,
                 properties, unmounted, lateUpdates>>

\* (mutant) a catch block that forgets setError
ApplyOutcomeNoSetError(outcome) ==
  IF outcome.threw
  THEN /\ loading' = FALSE
       /\ UNCHANGED <<error, properties, filteredProperties, effectPending>>
  ELSE /\ properties' = outcome.value
       /\ filteredProperties' = outcome.value
       /\ loading' = FALSE
       /\ effectPending' = TRUE
       /\ UNCHANGED error

\* the state updates fetchProperties issues for an outcome of its try block
ApplyOutcome(outcome) ==
  IF outcome.threw
  THEN /\ error' = Str(IF outcome.isError THEN outcome.message ELSE <<"Unknown", "error", "occurred">>)
       /\ loading' = FALSE
       /\ UNCHANGED <<properties, filteredProperties, effectPending>>
  ELSE /\ properties' = outcome.value
       /\ filteredProperties' = outcome.value
       /\ loading' = FALSE
       /\ effectPending' = TRUE
       /\ UNCHANGED error

\* the setters fetchProperties calls for an outcome of its try block
\* (lines 81-83 and 86-87)
Setters(outcome) ==
  IF outcome.threw THEN <<"setError", "setLoading">>
  ELSE <<"setProperties", "setFilteredProperties", "setLoading">>

\* (mutant) a continuation that tests a mounted flag before it sets state
IssueUpdatesIfMounted(outcome) ==
  IF unmounted
  THEN UNCHANGED <<lateUpdates, properties, filteredProperties, loading, error, effectPending>>
  ELSE /\ ApplyOutcome(outcome)
       /\ UNCHANGED lateUpdates

\* the end of fetchProperties: nothing tests whether the view is still
\* mounted; the setters are called in either case, and React drops the
\* updates of an unmounted view
IssueUpdates(outcome) ==
  IF unmounted
  THEN /\ lateUpdates' = lateUpdates \o Setters(outcome)
       /\ UNCHANGED <<properties, filteredProperties, loading, error, effectPending>>
  ELSE /\ ApplyOutcome(outcome)
       /\ UNCHANGED lateUpdates

\* the response of fetch number i arrives and fetchProperties runs to its end
FetchSettle(i) ==
  /\ fetches[i].pc = "pending"
  /\ requests[i].pc = "done"
  /\ Len(requests[i].responses) > 0
  /\ LET response == requests[i].responses[1] IN
       /\ fetches' = [fetches EXCEPT ![i] = [pc |-> "settled", status |-> response.status]]
       /\ requests' = [requests EXCEPT ![i].pc = "closed", ![i].responses = <<>>]
       /\ IssueUpdates(ProcessResponse(variant, response))
  /\ UNCHANGED <<config, cachedClient, clientsCreated, connectCalls, closeCalls, controls,
                 mounted, unmounted>>

\* fetch() itself rejects: the request never reaches the server and the
\* catch block runs
FetchNetworkError(i) ==
  /\ fetches[i].pc = "pending"
  /\ requests[i].pc = "start"
  /\ fetches' = [fetches EXCEPT ![i] = [pc |-> "settled", status |-> -1]]
  /\ requests' = [requests EXCEPT ![i].pc = "undelivered"]
  /\ IssueUpdates(Thrown(MsgFailedToFetch))
  /\ UNCHANGED <<config, cachedClient, clientsCreated, connectCalls, closeCalls, controls,
                 mounted, unmounted>>

\* the filter effect runs after a render in which one of its dependencies changed
RunFilterEffect ==
  /\ mounted
  /\ effectPending
  /\ filteredProperties' = FilterProperties(properties)
  /\ effectPending' = FALSE
  /\ UNCHANGED <<config, server, controls, fetches, mounted, unmounted, lateUpdates, properties,
                 loading, error>>

\* (mutant) a Retry button that every screen of the mounted view renders
RetryOnEveryScreen == mounted

\* the error screen is rendered, with its Retry button
RetryAvailable == mounted /\ ~effectPending /\ Screen(loading, error, filteredProperties) = "error"

\* onClick={fetchProperties} of the Retry button
Retry ==
  /\ RetryAvailable
  /\ StartFetch
  /\ UNCHANGED <<config, cachedClient, clientsCreated, connectCalls, closeCalls, controls,
                 mounted, unmounted, lateUpdates, properties, filteredProperties, effectPending>>

\* the view is removed from the page: neither effect returns a cleanup
\* function, so nothing is aborted and the fetches in flight stay as they are
Unmount ==
  /\ mounted
  /\ mounted' = FALSE
  /\ unmounted' = TRUE
  /\ UNCHANGED <<config, server, controls, fetches, lateUpdates, properties,
                 filteredProperties, loading, error, effectPending>>

\* the listing screen is rendered, with its search box and Filters button
ListingShown ==
  mounted /\ ~effectPending /\ Screen(loading, error, filteredProperties) \in {"empty", "list"}

Edited ==
  /\ effectPending' = TRUE
  /\ UNCHANGED <<config, server, fetches, mounted, unmounted, lateUpdates, properties,
                 filteredProperties, loading, error>>

SetSearchTerm(s) ==
  /\ ListingShown /\ s # searchTerm
  /\ searchTerm' = s
  /\ Edited
  /\ UNCHANGED <<categoryFilter, tagFilter, statusFilter, priceRange, showFilters>>

ToggleShowFilters ==
  /\ ListingShown
  /\ showFilters' = ~showFilters
  /\ UNCHANGED <<config, server, view, searchTerm, categoryFilter, tagFilter, statusFilter,
                 priceRange>>

SetCategoryFilter(c) ==
  /\ ListingShown /\ showFilters /\ variant = "A" /\ c # categoryFilter
  /\ categoryFilter' = c
  /\ Edited
  /\ UNCHANGED <<searchTerm, tagFilter, statusFilter, priceRange, showFilters>>

SetTagFilter(t) ==
  /\ ListingShown /\ showFilters /\ variant = "A" /\ t # tagFilter
  /\ tagFilter' = t
  /\ Edited
  /\ UNCHANGED <<searchTerm, categoryFilter, statusFilter, priceRange, showFilters>>

SetStatusFilter(st) ==
  /\ ListingShown /\ showFilters /\ variant = "B" /\ st # statusFilter
  /\ statusFilter' = st
  /\ Edited
  /\ UNCHANGED <<searchTerm, categoryFilter, tagFilter, priceRange, showFilters>>

\* setPriceRange([Number(value), priceRange[1]]) and setPriceRange([priceRange[0], Number(value)])
SetPriceRange(which, n) ==
  /\ ListingShown /\ showFilters /\ variant = "B" /\ n # priceRange[which]
  /\ priceRange' = [priceRange EXCEPT ![which] = n]
  /\ Edited
  /\ UNCHANGED <<searchTerm, categoryFilter, tagFilter, statusFilter, showFilters>>

(***************************************************************************)
(* Specification                                                           *)
(***************************************************************************)
\* the server module as loaded and the view as first rendered
InitProgram ==
  /\ cachedClient = 0
  /\ clientsCreated = 0
  /\ connectCalls = 0
  /\ closeCalls = 0
  /\ requests = <<>>
  /\ fetches = <<>>
  /\ mounted = FALSE
  /\ unmounted = FALSE
  /\ lateUpdates = <<>>
  /\ properties = <<>>
  /\ filteredProperties = <<>>
  /\ loading = TRUE
  /\ error = Null
  /\ searchTerm = <<>>
  /\ categoryFilter = All
  /\ tagFilter = All
  /\ statusFilter = All
  /\ priceRange = <<0, PriceRangeMax>>
  /\ showFilters = FALSE
  /\ effectPending = FALSE

Init ==
  /\ variant \in {"A", "B"}
  /\ mongodbUri \in {Undef, Str(ConnectionString)}
  /\ collection \in Collections(variant)
  /\ InitProgram

ServerStep ==
  \/ \E r \in 1..Len(requests) : ServerGetMongoClient(r)
  \/ \E r \in 1..Len(requests) : ServerConnect(r)
  \/ \E r \in 1..Len(requests) : ServerConnectSettled(r)
  \/ \E r \in 1..Len(requests) : ServerQuery(r)

FetchStep ==
  \/ \E i \in 1..Len(fetches) : FetchSettle(i)
  \/ \E i \in 1..Len(fetches) : FetchNetworkError(i)

EditStep ==
  \/ \E s \in SearchTerms : SetSearchTerm(s)
  \/ ToggleShowFilters
  \/ \E c \in CategoryOptions : SetCategoryFilter(c)
  \/ \E t \in TagOptions : SetTagFilter(t)
  \/ \E st \in StatusOptions : SetStatusFilter(st)
  \/ \E which \in {1, 2}, n \in PriceInputs : SetPriceRange(which, n)

Next == Mount \/ ServerStep \/ FetchStep \/ RunFilterEffect \/ Retry \/ EditStep

Spec == Init /\ [][Next]_vars

(***************************************************************************)
(* The mapping of one document, for every subset of its optional fields:   *)
(* the collection holds one full document restricted to the subset, and    *)
(* the view mounts and fetches it once                                     *)
(***************************************************************************)
MapDocs(v) ==
  {MakeDoc(Mask(Template(v, "full"), present \cup PassThroughA), Oid(1)) :
     present \in SUBSET OptionalKeys(v)}

InitMap ==
  /\ variant \in {"A", "B"}
  /\ mongodbUri = Str(ConnectionString)
  /\ collection \in {<<d>> : d \in MapDocs(variant)}
  /\ InitProgram

NextMap == Mount \/ ServerStep \/ FetchStep \/ RunFilterEffect

SpecMap == InitMap /\ [][NextMap]_vars

(***************************************************************************)
(* The program with its scheduling: the event loop of the server and the   *)
(* browser keeps running the handler steps, fetch continuations and        *)
(* effects that are ready (NextMap); the user may stop pressing Retry and  *)
(* editing the controls at any time                                        *)
(***************************************************************************)
InitSmall ==
  /\ Init
  /\ Len(collection) <= MaxDocs

SpecFair == InitSmall /\ [][Next]_vars /\ WF_vars(NextMap)

(***************************************************************************)
(* The view with its unmount: the page may remove the view at any time     *)
(* after it has mounted                                                    *)
(***************************************************************************)
NextUnmount == Next \/ Unmount

SpecUnmount == InitSmall /\ [][NextUnmount]_vars

(***************************************************************************)
(* One server process serving concurrent GET requests: requests arrive at  *)
(* any time and the event loop interleaves their handlers at every await;  *)
(* a handler that can take a step eventually takes one                     *)
(***************************************************************************)
NextServer == Arrive \/ ServerStep

SpecServer == InitSmall /\ [][NextServer]_vars /\ WF_vars(ServerStep)

(***************************************************************************)
(* Properties of the endpoint                                              *)
(***************************************************************************)
\* the requests whose handler has returned and whose response is not yet read
Answered == {r \in 1..Len(requests) : requests[r].pc = "done"}
HasKey(x, key) == x.t = "object" /\ key \in DOMAIN x.v

\* C1: every response with status 200 carries at most 500 documents, whatever
\* the size of the collection
C1_AtMost500Documents ==
  \A r \in Answered :
    \A k \in 1..Len(requests[r].responses) :
      LET response == requests[r].responses[k] IN
        response.status = 200 => Len(Get(response.body, "documents").v) <= 500

\* a collection of more than 500 documents was queried and answered with 500 of them
C1_Witness ==
  \E r \in Answered :
    /\ Len(collection) > 500
    /\ Len(requests[r].responses) = 1
    /\ requests[r].responses[1].status = 200
    /\ Len(Get(requests[r].responses[1].body, "documents").v) = 500

\* C2 (as claimed): with MONGODB_URI unset, every GET is answered with status
\* 500 and a body {error: message} whose message contains "MONGODB_URI"
C2_MissingUriNamesVariable ==
  mongodbUri = Undef =>
    \A r \in Answered :
      /\ Len(requests[r].responses) = 1
      /\ requests[r].responses[1].status = 500
      /\ HasKey(requests[r].responses[1].body, "error")
      /\ Includes(Get(requests[r].responses[1].body, "error").v, <<"MONGODB_URI">>)

\* C3: a handler that has returned produced exactly one response and let no
\* exception escape: 200 {documents} without an error field when its try block
\* succeeded, 500 {error} without documents when it threw; a handler that has
\* not returned has produced no response
C3_ExactlyOneResponse ==
  \A r \in 1..Len(requests) :
    /\ ~requests[r].escaped
    /\ requests[r].pc \notin {"done"} => requests[r].responses = <<>>
    /\ requests[r].pc = "done" =>
         /\ Len(requests[r].responses) = 1
         /\ LET response == requests[r].responses[1] IN
              IF requests[r].failed
              THEN /\ response.status = 500
                   /\ HasKey(response.body, "error")
                   /\ Get(response.body, "error").t = "string"
                   /\ ~HasKey(response.body, "documents")
              ELSE /\ response.status = 200
                   /\ HasKey(response.body, "documents")
                   /\ Get(response.body, "documents").t = "array"
                   /\ ~HasKey(response.body, "error")

\* a second invocation has answered 500 after a failed query while the first
\* one had answered too
C3_Witness ==
  /\ Len(requests) = 2
  /\ requests[1].pc = "closed"
  /\ requests[2].pc = "done"
  /\ requests[2].failed
  /\ requests[2].responses[1].status = 500
  /\ Get(requests[2].responses[1].body, "error") = Str(MsgQueryFailed)

(***************************************************************************)
(* Properties of the endpoint and the view together                        *)
(***************************************************************************)
\* the most recent fetchProperties call has run to its end
LastFetchSettled == Len(fetches) > 0 /\ fetches[Len(fetches)].pc = "settled"
LastFetchStatus == fetches[Len(fetches)].status

\* C4: a handler whose try block threw answers 500, and once the view's
\* latest fetch has been answered with a non-2xx status the view is in the
\* error state (loading false, error set), renders the error banner and offers
\* Retry; it shows neither the listing nor the empty-state screen
C4_ServerFailureShowsErrorBanner ==
  /\ \A r \in Answered :
       requests[r].failed =>
         Len(requests[r].responses) = 1 /\ requests[r].responses[1].status = 500
  /\ (LastFetchSettled /\ LastFetchStatus > 0 /\ (LastFetchStatus < 200 \/ LastFetchStatus > 299)) =>
       /\ loading = FALSE
       /\ error.t = "string" /\ Len(error.v) > 0
       /\ Screen(loading, error, filteredProperties) = "error"
       /\ Screen(loading, error, filteredProperties) \notin {"list", "empty"}
       /\ RetryAvailable

\* a retried fetch was answered 500 because connect failed, and the banner is up
C4_Witness ==
  /\ Len(fetches) = 2
  /\ LastFetchSettled /\ LastFetchStatus = 500
  /\ Includes(error.v, MsgConnectFailed)
  /\ RetryAvailable

\* C5: with an empty collection a handler whose try block succeeded answers
\* 200 {documents: []}, and once the view's latest fetch got that answer the
\* view is in the success state with an empty filtered list and renders the
\* empty-state message
C5_EmptyCollectionShowsEmptyState ==
  Len(collection) = 0 =>
    /\ \A r \in Answered :
         ~requests[r].failed =>
           /\ requests[r].responses[1].status = 200
           /\ Get(requests[r].responses[1].body, "documents") = Arr(<<>>)
    /\ (LastFetchSettled /\ LastFetchStatus = 200) =>
         /\ loading = FALSE
         /\ ~Truthy(error)
         /\ filteredProperties = <<>>
         /\ Screen(loading, error, filteredProperties) = "empty"

\* the fetch of an empty collection has completed and the filter effect has run
C5_Witness ==
  /\ Len(collection) = 0
  /\ LastFetchSettled /\ LastFetchStatus = 200
  /\ ~effectPending
  /\ Screen(loading, error, filteredProperties) = "empty"

\* the name of the amenity list in the documents and in the view-model records
AmenitiesKey == IF variant = "A" THEN "amenities" ELSE "Amenities"

\* C6: a document without an amenities field gets the empty list from the
\* reshaping step of the endpoint (variant A) and from the view-model mapping
\* (both variants); a fetch answered 200 ends in the success state with one
\* record per returned document
C6_NoAmenitiesMapsToEmptyList ==
  /\ \A r \in Answered :
       (variant = "A" /\ ~requests[r].failed) =>
         LET documents == Get(requests[r].responses[1].body, "documents").v IN
           \A i \in 1..Len(documents) :
             ~HasKey(collection[i], "amenities") =>
               Get(Get(documents[i], "fields"), "amenities") = Arr(<<>>)
  /\ \A i \in 1..Len(properties) :
       ~HasKey(collection[i], AmenitiesKey) => properties[i][AmenitiesKey] = Arr(<<>>)
  /\ (LastFetchSettled /\ LastFetchStatus = 200) =>
       /\ loading = FALSE
       /\ ~Truthy(error)
       /\ Len(properties) = Min(Len(collection), 500)

\* the listing shows a record made from a document without amenities
C6_Witness ==
  /\ variant = "B"
  /\ LastFetchSettled /\ LastFetchStatus = 200
  /\ Screen(loading, error, filteredProperties) = "list"
  /\ \E i \in 1..Len(properties) :
       /\ ~HasKey(collection[i], AmenitiesKey)
       /\ properties[i][AmenitiesKey] = Arr(<<>>)
       /\ \E j \in 1..Len(filteredProperties) : filteredProperties[j] = properties[i]

\* the defaults the view-model mapping is to substitute, as
\* <<document field, view-model field, default>>
ExpectedDefaultsA ==
  {<<"title", "title", Unknown>>,
   <<"at_biz_dir-location", "location", Unknown>>,
   <<"at_biz_dir-category", "category", Unknown>>,
   <<"starting_bsp", "price", NotAvailable>>,
   <<"price_sqft", "priceSqft", NotAvailable>>,
   <<"address", "address", NotAvailable>>,
   <<"project_highlights", "projectHighlights", NotAvailable>>,
   <<"rera_id", "reraId", NotAvailable>>,
   <<"photo_url", "photoUrl", EmptyString>>,
   <<"listing_url", "listingUrl", Hash>>,
   <<"amenities", "amenities", Arr(<<>>)>>,
   <<"at_biz_dir-tags", "tags", Arr(<<>>)>>,
   <<"latitude", "latitude", Num(0)>>,
   <<"longitude", "longitude", Num(0)>>}

ExpectedDefaultsB ==
  {<<"Apartment Name", "Apartment Name", Unknown>>,
   <<"Location", "Location", Unknown>>,
   <<"Project Status", "Project Status", Unknown>>,
   <<"Total Area", "Total Area", NotAvailable>>,
   <<"Photo URL", "Photo URL", EmptyString>>,
   <<"Listing URL", "Listing URL", Hash>>,
   <<"Amenities", "Amenities", Arr(<<>>)>>,
   <<"Minimum Price", "Minimum Price", Num(0)>>,
   <<"Maximum Price", "Maximum Price", Num(0)>>,
   <<"Per Sqft Cost", "Per Sqft Cost", Num(0)>>,
   <<"Number of Units", "Number of Units", Num(0)>>,
   <<"Latitude", "Latitude", Num(0)>>,
   <<"Longitude", "Longitude", Num(0)>>}

ExpectedDefaults == IF variant = "A" THEN ExpectedDefaultsA ELSE ExpectedDefaultsB

\* C7: whatever subset of its optional fields a returned document lacks, a
\* fetch answered 200 ends in the success state with one view-model record per
\* document, in which every absent optional field holds its default
C7_AbsentFieldsGetDefaults ==
  (LastFetchSettled /\ LastFetchStatus = 200) =>
    /\ loading = FALSE
    /\ ~Truthy(error)
    /\ Len(properties) = Min(Len(collection), 500)
    /\ \A i \in 1..Len(properties) :
         \A e \in ExpectedDefaults :
           ~HasKey(collection[i], e[1]) => properties[i][e[2]] = e[3]

\* a document with none of its optional fields was fetched and mapped
C7_Witness ==
  /\ LastFetchSettled /\ LastFetchStatus = 200
  /\ Len(properties) = 1
  /\ DOMAIN collection[1].v \cap OptionalKeys(variant) = {}
  /\ \A e \in ExpectedDefaults : properties[1][e[2]] = e[3]

(***************************************************************************)
(* Properties of the view                                                  *)
(***************************************************************************)
\* C8: filtering is idempotent. In every state, filtering the result of
\* filtering the records with the same control values changes nothing; once
\* filterProperties has run (no run is pending), the list on display is a
\* fixed point of the filter, and it is the filter of the records, so that
\* running filterProperties again with nothing changed leaves it as it is
C8_FilterIdempotent ==
  LET once == FilterProperties(properties) IN
    /\ FilterProperties(once) = once
    /\ (mounted /\ ~effectPending) =>
         /\ FilterProperties(filteredProperties) = filteredProperties
         /\ once = filteredProperties

\* the filter has run with a search string that keeps some records and
\* rejects others
C8_Witness ==
  /\ ~effectPending
  /\ searchTerm # <<>>
  /\ filteredProperties = FilterProperties(properties)
  /\ Len(filteredProperties) > 0
  /\ Len(filteredProperties) < Len(properties)
  /\ FilterProperties(filteredProperties) = filteredProperties

\* the state of the view's state machine
ViewStateOf(isLoading, err) ==
  IF isLoading THEN "loading" ELSE IF Truthy(err) THEN "error" ELSE "success"
ViewState == ViewStateOf(loading, error)

\* fetch number i settles in this step
Settles(i) == fetches[i].pc = "pending" /\ fetches'[i].pc = "settled"

\* the response fetch number i is about to read is ok and carries documents
GoodResponse(i) ==
  /\ requests[i].pc = "done"
  /\ Len(requests[i].responses) = 1
  /\ requests[i].responses[1].status \in 200..299
  /\ HasKey(requests[i].responses[1].body, "documents")

\* C9: the view starts in loading; a fetch that settles takes it from loading
\* to success when the response is ok and carries documents and to error
\* otherwise; nothing else leaves loading; the only way out of error is Retry,
\* which enters loading with the error cleared and starts a fetch; nothing
\* leaves success
C9_ViewStateMachine ==
  /\ ViewState = "loading"
  /\ [][/\ \A i \in 1..Len(fetches) :
             Settles(i) =>
               /\ ViewState = "loading"
               /\ ViewStateOf(loading', error') = IF GoodResponse(i) THEN "success" ELSE "error"
        /\ (ViewState = "loading" /\ ViewStateOf(loading', error') # "loading") =>
             \E i \in 1..Len(fetches) : Settles(i)
        /\ (ViewState = "error" /\ ViewStateOf(loading', error') # "error") =>
             /\ RetryAvailable
             /\ ViewStateOf(loading', error') = "loading"
             /\ error' = Null
             /\ Len(fetches') = Len(fetches) + 1
        /\ ViewState = "success" => ViewStateOf(loading', error') = "success"]_vars

\* a fetch failed, Retry was pressed, the second fetch succeeded and the user
\* went on to search the listing
C9_Witness ==
  /\ Len(fetches) = 2
  /\ fetches[1].pc = "settled" /\ fetches[1].status = 500
  /\ fetches[2].pc = "settled" /\ fetches[2].status = 200
  /\ ViewState = "success"
  /\ searchTerm # <<>>

\* C10: the view never holds more than 500 view-model records, neither in
\* properties nor in filteredProperties
C10_AtMost500Records ==
  Len(properties) <= 500 /\ Len(filteredProperties) <= 500

\* after a failed fetch, a retry and a search, the view holds the 500 records
\* of a larger collection
C10_Witness ==
  /\ Len(collection) > 500
  /\ Len(fetches) = 2
  /\ Len(properties) = 500
  /\ searchTerm # <<>>
  /\ ~effectPending
  /\ Len(filteredProperties) > 0

(***************************************************************************)
(* The filtered projection                                                 *)
(***************************************************************************)
\* the lower-cased search string is contained in the lower-cased text
ContainsSearch(text, term) == Includes(ToLowerCase(text), ToLowerCase(term))

\* the conditions under which a record belongs to the projection, for the
\* control values of the current state
SearchHolds(p) ==
  IF variant = "A"
  THEN \/ ContainsSearch(p["title"].v, searchTerm)
       \/ ContainsSearch(p["location"].v, searchTerm)
       \/ ContainsSearch(p["address"].v, searchTerm)
  ELSE \/ ContainsSearch(p["Apartment Name"].v, searchTerm)
       \/ ContainsSearch(p["Location"].v, searchTerm)

SelectorHolds(p) ==
  IF variant = "A"
  THEN categoryFilter = All \/ p["category"] = Str(categoryFilter)
  ELSE statusFilter = All \/ p["Project Status"] = Str(statusFilter)

TagHolds(p) ==
  variant = "A" =>
    (tagFilter = All \/ \E k \in 1..Len(p["tags"].v) : p["tags"].v[k] = Str(tagFilter))

PriceHolds(p) ==
  variant = "B" =>
    /\ p["Minimum Price"].t = "number"
    /\ priceRange[1] <= p["Minimum Price"].v
    /\ p["Minimum Price"].v <= priceRange[2]

AllConditionsHold(p) == SearchHolds(p) /\ SelectorHolds(p) /\ TagHolds(p) /\ PriceHolds(p)

\* the positions of the records of `props` that satisfy all conditions, ascending
MatchingPositions(props) ==
  SelectSeq([i \in 1..Len(props) |-> i], LAMBDA i : AllConditionsHold(props[i]))

\* `shown` is exactly the records of `props` that satisfy all conditions, in
\* the order of `props`
ExactlyTheMatching(props, shown) ==
  LET at == MatchingPositions(props) IN
    /\ Len(shown) = Len(at)
    /\ \A j \in 1..Len(at) : shown[j] = props[at[j]]

\* C11: once filterProperties has run for the current records and control
\* values, the filtered projection holds a record exactly when the search
\* string (lower-cased) is contained in its lower-cased name, location or
\* address (name or location in variant B; the empty string matches all), the
\* category/status selector is "all" or equals the record's, the tag selector
\* is "all" or one of the record's tags, and (variant B) the minimum price lies
\* in [priceRange[0], priceRange[1]]; the records keep their original order
C11_FilteredExactlyTheMatching ==
  (mounted /\ ~effectPending) =>
    ExactlyTheMatching(properties, filteredProperties)

\* a search string was entered that one record matches only by its address (A)
\* or location (B), another record was rejected, and the projection is current
C11_Witness ==
  /\ mounted /\ ~effectPending
  /\ searchTerm # <<>>
  /\ Len(filteredProperties) > 0
  /\ \E i \in 1..Len(properties) : ~AllConditionsHold(properties[i])
  /\ \E i \in 1..Len(properties) :
       /\ AllConditionsHold(properties[i])
       /\ IF variant = "A"
          THEN ~ContainsSearch(properties[i]["title"].v, searchTerm)
               /\ ~ContainsSearch(properties[i]["location"].v, searchTerm)
          ELSE ~ContainsSearch(properties[i]["Apartment Name"].v, searchTerm)

\* C12 (as claimed): in every state in which the view is in the success state
\* (loading false, error null), the one entered when a fetch completes
\* included, filteredProperties is the filter of the current properties under
\* the current control values
C12_SuccessShowsFilterOfProperties ==
  ViewState = "success" => filteredProperties = FilterProperties(properties)

(***************************************************************************)
(* Fetches in flight                                                       *)
(***************************************************************************)
\* fetch number i has been started and its continuation has not run yet
InFlight(i) == fetches[i].pc = "pending"

\* a later fetch was started while an earlier fetch of the view is in flight
FetchOverlap == \E i \in 1..(Len(fetches) - 1) : InFlight(i)

\* C13 (as claimed): when Retry is pressed, a state is reached in which it has
\* started a fetch while an earlier fetch of the same view is still in flight,
\* so that the earlier response can be applied after the later fetch was
\* started
C13_RetryCanRace == <>(Len(fetches) > 1) => <>FetchOverlap

\* C13 (amended): in-flight fetches are never cancelled, yet a retry cannot
\* race: a fetch in flight is always the latest fetch of the view, the view is
\* in the loading state for as long as it is in flight, and Retry is not
\* offered then; so no fetch is started while an earlier one is in flight and
\* every response is applied before any later fetch exists
C13_OnlyTheLatestFetchInFlight ==
  \A i \in 1..Len(fetches) :
    InFlight(i) =>
      /\ i = Len(fetches)
      /\ loading
      /\ ~RetryAvailable

\* Retry has started a second fetch, after the first one had settled with an
\* error, and the second fetch is in flight
C13_Witness ==
  /\ Len(fetches) = 2
  /\ fetches[1].pc = "settled" /\ fetches[1].status = 500
  /\ InFlight(2)
  /\ requests[2].pc = "connecting"

\* the response of fetch number i has arrived and the view is unmounted
LateResponse(i) ==
  /\ unmounted
  /\ InFlight(i)
  /\ requests[i].pc = "done"
  /\ Len(requests[i].responses) = 1

\* C14: unmounting cancels nothing. The step that unmounts the view leaves its
\* fetches and their requests as they are; a response that arrives for a
\* fetch in flight after the unmount can always be delivered to its
\* continuation; and a continuation that runs after the unmount calls its
\* setters on the unmounted view: setProperties, setFilteredProperties and
\* setLoading for an ok response with documents, setError and setLoading
\* otherwise
C14_UnmountDoesNotCancelFetch ==
  /\ [](\A i \in 1..Len(fetches) : LateResponse(i) => ENABLED FetchSettle(i))
  /\ [][/\ (~unmounted /\ unmounted') => (fetches' = fetches /\ requests' = requests)
        /\ \A i \in 1..Len(fetches) :
             (unmounted /\ Settles(i)) =>
               lateUpdates' = lateUpdates \o
                 (IF GoodResponse(i)
                  THEN <<"setProperties", "setFilteredProperties", "setLoading">>
                  ELSE <<"setError", "setLoading">>)]_vars

\* the view was unmounted while its retried fetch was in flight, the endpoint
\* answered 200 afterwards and the continuation called its three setters
C14_Witness ==
  /\ unmounted
  /\ Len(fetches) = 2
  /\ fetches[2].pc = "settled" /\ fetches[2].status = 200
  /\ loading
  /\ lateUpdates = <<"setProperties", "setFilteredProperties", "setLoading">>

(***************************************************************************)
(* Properties of the cached client handle                                  *)
(***************************************************************************)
\* the requests that hold a client handle
Holding == {r \in 1..Len(requests) : requests[r].client # 0}

\* request r has gone past its call of client.connect()
CalledConnect(r) == requests[r].client # 0 /\ requests[r].pc # "client"

\* two requests hold their handles at the same time, neither answered yet
Interleaved(q, r) ==
  /\ q # r
  /\ requests[q].pc \in {"client", "connecting", "connected"}
  /\ requests[r].pc \in {"client", "connecting", "connected"}

\* C15 (as claimed): when the handlers of two requests of one server process
\* interleave, a state is reached in which more than one client handle has
\* been constructed, one of which was overwritten in cachedClient
C15_RequestsCanRaceOnCache ==
  <>(\E q, r \in 1..Len(requests) : Interleaved(q, r)) => <>(clientsCreated > 1)

\* C15 (amended): concurrent requests of one server process cannot race on the
\* handle cache. getMongoClient has no await between its test of cachedClient
\* and its assignment, so it runs to its end before another handler runs: a
\* process constructs at most one handle, the handle stays in cachedClient,
\* and every request that holds a handle holds that one, also when the
\* handlers interleave
C15_OneHandlePerProcess ==
  /\ clientsCreated <= 1
  /\ cachedClient = clientsCreated
  /\ \A r \in Holding : requests[r].client = cachedClient

\* two requests whose handlers interleave are both awaiting connect() on the
\* one handle that was constructed
C15_Witness ==
  /\ Len(requests) = 2
  /\ Interleaved(1, 2)
  /\ requests[1].pc = "connecting" /\ requests[2].pc = "connecting"
  /\ requests[1].client = requests[2].client
  /\ clientsCreated = 1

\* C16: a request that holds a handle calls connect() on it exactly once, as
\* soon as it holds it and before its query, whether it constructed the handle
\* or found it cached; a request without a handle never calls connect(); the
\* connect() calls of n requests are n calls on the same handle; and no
\* request closes the handle
C16_ConnectOncePerRequest ==
  /\ \A r \in 1..Len(requests) :
       /\ requests[r].connects = IF CalledConnect(r) THEN 1 ELSE 0
       /\ requests[r].pc \in {"connecting", "connected"} => CalledConnect(r)
       /\ (requests[r].pc \in {"done", "closed"} /\ ~requests[r].failed) => CalledConnect(r)
       /\ requests[r].client \in {0, cachedClient}
  /\ connectCalls = Cardinality({r \in 1..Len(requests) : CalledConnect(r)})
  /\ closeCalls = 0

\* two requests were answered with documents; the second found the handle
\* cached and called connect() on it again
C16_Witness ==
  /\ Len(requests) = 2
  /\ \A r \in 1..2 : requests[r].pc = "done" /\ ~requests[r].failed /\ requests[r].connects = 1
  /\ clientsCreated = 1
  /\ connectCalls = 2
  /\ closeCalls = 0

\* request r leaves getMongoClient in this step
LeavesGetMongoClient(r) == requests[r].pc = "start" /\ requests'[r].pc # "start"

\* C17: the cached handle is never invalidated. Once cachedClient is non-null
\* no step changes it, a step that answers 500 after a failed connect or query
\* included; a request that calls getMongoClient afterwards gets that handle;
\* and cachedClient changes only in a step in which a request that found it
\* null, with a connection string configured, stores the handle it constructed
C17_CachedClientNeverInvalidated ==
  [][/\ cachedClient # 0 => cachedClient' = cachedClient
     /\ \A r \in 1..Len(requests) :
          (cachedClient # 0 /\ LeavesGetMongoClient(r)) =>
            /\ requests'[r].pc = "client"
            /\ requests'[r].client = cachedClient
     /\ cachedClient' # cachedClient =>
          /\ cachedClient = 0
          /\ Truthy(Uri(variant, mongodbUri))
          /\ mongodbUri # Undef
          /\ \E r \in 1..Len(requests) :
               /\ LeavesGetMongoClient(r)
               /\ requests'[r].client = cachedClient']_vars

\* one request was answered 500 after its connect failed, the handle is still
\* cached, and another request holds the same handle
C17_Witness ==
  /\ Len(requests) = 2
  /\ requests[1].pc = "done" /\ requests[1].failed
  /\ Get(requests[1].responses[1].body, "error") = Str(MsgConnectFailed)
  /\ cachedClient # 0
  /\ requests[2].pc = "connected"
  /\ requests[2].client = cachedClient
  /\ requests[1].client = cachedClient

====
